---- MODULE Spec2Model ----
(***************************************************************************)
(* A model of bti.py: retrieval of documents from the USPTO Bulk Data      *)
(* Storage System.  The module models                                      *)
(*   - the reference normalizer (determine_reference_type and the three    *)
(*     format_*_number functions) on strings held as sequences of          *)
(*     one-character strings,                                              *)
(*   - the index resolvers, the cache check and BDSS_Interface.fetch,      *)
(*   - the read loop of retrieve_document_from_bdss,                       *)
(*   - the whole-file download fetch_file,                                 *)
(*   - WorkerProcess.run and the BTIWindow dispatcher.                     *)
(* Python values that may be None are tagged records: None, Str(s),        *)
(* Num(i), Bool(b), Ty(t).  A Python tuple is a TLA+ sequence of them.     *)
(***************************************************************************)
EXTENDS Integers, Sequences, FiniteSets, TLC

VARIABLES
  norm_in,        \* arguments of the determine_reference_type call under study
  norm_out,       \* its outcome: [raised, ret]
  fmt_in,         \* the formatter or filename call under study and its arguments
  fmt_out,        \* its outcome: [raised, ret]
  db_present,     \* os.path.isfile(bti.sqlite)
  publications,   \* rows of the publications table joined with date_codes
  patents,        \* rows of the patents table joined with date_codes
  files,          \* names of the files present in the documents path
  retrieved_ok,   \* names for which a range fetch has returned success
  fetch_in,       \* arguments of the last fetch call
  fetch_out,      \* its outcome: [raised, ret]
  calls,          \* the functions the last fetch call invoked, in order
  resolved,       \* what the index resolver returned to the last fetch call
  r_pc,           \* retrieve_document_from_bdss: position in the function
  r_size,         \* its size argument
  r_stream,       \* bytes the response still holds
  r_num_chunks,   \* num_chunks
  r_total,        \* bytes read from the response so far
  r_file,         \* size of the local file, -1 when it does not exist
  r_last,         \* len(data) of the last read
  r_result,       \* the returned tuple
  ff_pc,          \* fetch_file: position in the function
  ff_tmp,         \* content of '<local_file>.tmp'
  ff_dest,        \* content of local_file
  ff_dest0,       \* content of local_file when fetch_file was called
  ff_stream,      \* chunks the response still holds
  ff_msgs,        \* progress messages put on the output queue
  ff_result,      \* the returned tuple
  ff_failed_at,   \* the step whose exception reached the handler
  workers,        \* BTIWindow.workers: the command keys present
  output_queue,   \* the multiprocessing.Queue, oldest message first
  procs,          \* the worker processes started so far
  button_fetch,   \* state of the Fetch button
  button_script_fetch, \* state of the script Fetch button
  drained         \* the processes whose terminal message has been drained

norm_vars == <<norm_in, norm_out>>
format_vars == <<fmt_in, fmt_out>>
fetch_vars == <<db_present, publications, patents, files, retrieved_ok,
                fetch_in, fetch_out, calls, resolved>>
range_vars == <<r_pc, r_size, r_stream, r_num_chunks, r_total, r_file, r_last,
                r_result>>
file_vars == <<ff_pc, ff_tmp, ff_dest, ff_dest0, ff_stream, ff_msgs, ff_result,
               ff_failed_at>>
worker_vars == <<workers, output_queue, procs, button_fetch,
                 button_script_fetch, drained>>
vars == <<norm_vars, format_vars, fetch_vars, range_vars, file_vars,
         worker_vars>>

(***************************************************************************)
(* Python values                                                           *)
(***************************************************************************)
None == [none |-> TRUE]
Str(s) == [s |-> s]
Num(i) == [i |-> i]
Bool(b) == [b |-> b]
Ty(t) == [ty |-> t]
Msg(kind, arg) == [msg |-> kind, arg |-> arg]

\* the outcome of a call: a returned value or an exception
Returned(v) == [raised |-> FALSE, ret |-> v]
Raised(e) == [raised |-> TRUE, ret |-> e]

(***************************************************************************)
(* Strings: sequences of one-character strings                            *)
(***************************************************************************)
Digit == {"0", "1", "2", "3", "4", "5", "6", "7", "8", "9"}

DigitVal(c) ==
  CASE c = "0" -> 0 [] c = "1" -> 1 [] c = "2" -> 2 [] c = "3" -> 3
    [] c = "4" -> 4 [] c = "5" -> 5 [] c = "6" -> 6 [] c = "7" -> 7
    [] c = "8" -> 8 [] c = "9" -> 9

\* str.upper(), on the letters the inputs use
UpperChar(c) ==
  CASE c = "u" -> "U" [] c = "s" -> "S" [] c = "d" -> "D" [] c = "b" -> "B"
    [] OTHER -> c

upper(s) == [i \in 1..Len(s) |-> UpperChar(s[i])]

\* s[a:b] of Python, a and b 0-based and clipped
Slice(s, a, b) ==
  LET hi == IF b > Len(s) THEN Len(s) ELSE b
  IN IF a >= hi THEN <<>> ELSE SubSeq(s, a + 1, hi)

\* re.sub(r'\s', '', s)
RECURSIVE remove_whitespace(_)
remove_whitespace(s) ==
  IF s = <<>> THEN <<>>
  ELSE IF Head(s) = " " THEN remove_whitespace(Tail(s))
  ELSE <<Head(s)>> \o remove_whitespace(Tail(s))

\* the longest run of digits s starts with
RECURSIVE digit_run(_)
digit_run(s) ==
  IF s = <<>> \/ Head(s) \notin Digit THEN <<>>
  ELSE <<Head(s)>> \o digit_run(Tail(s))

\* re.sub(r'U|S|B\d+|\.|/|,', '', s) when kind_codes, and
\* re.sub(r'U|S|\.|/|,', '', s) otherwise
RECURSIVE re_sub(_, _)
re_sub(s, kind_codes) ==
  IF s = <<>> THEN <<>>
  ELSE IF Head(s) \in {"U", "S", ".", "/", ","} THEN re_sub(Tail(s), kind_codes)
  ELSE IF kind_codes /\ Head(s) = "B" /\ digit_run(Tail(s)) # <<>>
    THEN re_sub(Slice(s, 1 + Len(digit_run(Tail(s))), Len(s)), kind_codes)
  ELSE <<Head(s)>> \o re_sub(Tail(s), kind_codes)

\* str.replace of one character by nothing
RECURSIVE remove_char(_, _)
remove_char(s, c) ==
  IF s = <<>> THEN <<>>
  ELSE IF Head(s) = c THEN remove_char(Tail(s), c)
  ELSE <<Head(s)>> \o remove_char(Tail(s), c)

\* str.lstrip('0')
RECURSIVE lstrip0(_)
lstrip0(s) ==
  IF s # <<>> /\ Head(s) = "0" THEN lstrip0(Tail(s)) ELSE s

\* str.rjust(n, '0')
RECURSIVE rjust0(_, _)
rjust0(s, n) ==
  IF Len(s) >= n THEN s ELSE rjust0(<<"0">> \o s, n)

\* s.startswith(p) at 0-based position i
StartsWithAt(s, i, p) == Slice(s, i, i + Len(p)) = p

\* s.find('/') > -1
HasSlash(s) == \E i \in 1..Len(s) : s[i] = "/"

\* the decimal digits of int(d) for a non-empty digit string d
IntDigits(d) == IF lstrip0(d) = <<>> THEN <<"0">> ELSE lstrip0(d)

\* f'{n:,}' on the decimal digits of n
RECURSIVE comma_group(_)
comma_group(d) ==
  IF Len(d) <= 3 THEN d
  ELSE comma_group(Slice(d, 0, Len(d) - 3)) \o <<",">> \o Slice(d, Len(d) - 3, Len(d))

(***************************************************************************)
(* ReferenceNormalizer                                                     *)
(***************************************************************************)
\* the prefixes of r'(D|PP|RE|H|T|X|RX|AI)?(\d+)', in the order the regular
\* expression tries them
PatentPrefixes ==
  << <<"D">>, <<"P", "P">>, <<"R", "E">>, <<"H">>, <<"T">>, <<"X">>,
     <<"R", "X">>, <<"A", "I">> >>

\* the match of r'(D|PP|RE|H|T|X|RX|AI)?(\d+)' anchored at 0-based position
\* i: the first prefix followed by a digit, else a digit at i itself
MatchAt(s, i) ==
  LET with_prefix == {k \in 1..Len(PatentPrefixes) :
                        /\ StartsWithAt(s, i, PatentPrefixes[k])
                        /\ digit_run(Slice(s, i + Len(PatentPrefixes[k]), Len(s))) # <<>>}
  IN IF with_prefix # {}
       THEN LET k == CHOOSE k \in with_prefix : \A j \in with_prefix : k <= j
            IN [found |-> TRUE, prefix |-> PatentPrefixes[k],
                digits |-> digit_run(Slice(s, i + Len(PatentPrefixes[k]), Len(s)))]
     ELSE IF digit_run(Slice(s, i, Len(s))) # <<>>
       THEN [found |-> TRUE, prefix |-> <<>>, digits |-> digit_run(Slice(s, i, Len(s)))]
     ELSE [found |-> FALSE, prefix |-> <<>>, digits |-> <<>>]

\* re.search: the match at the leftmost position that has one
re_search(s) ==
  LET at == {i \in 0..(Len(s) - 1) : MatchAt(s, i).found}
  IN IF at = {} THEN [found |-> FALSE, prefix |-> <<>>, digits |-> <<>>]
     ELSE MatchAt(s, CHOOSE i \in at : \A j \in at : i <= j)

format_patent_number(number, human_readable) ==
  IF number = None THEN Returned(None)
  ELSE LET n == re_sub(remove_whitespace(upper(number.s)), TRUE)
           pn_formatted == re_search(n)
       IN IF ~pn_formatted.found THEN Returned(None)
          ELSE LET numeric_part == IntDigits(pn_formatted.digits)
               IN IF human_readable
                    THEN Returned(Str(pn_formatted.prefix \o comma_group(numeric_part)))
                    ELSE Returned(Str(pn_formatted.prefix \o numeric_part))

format_publication_number(number, human_readable) ==
  IF number = None THEN Returned(None)
  ELSE LET n == re_sub(remove_whitespace(upper(number.s)), FALSE)
       IN IF Len(n) < 11 THEN Returned(None)
          ELSE LET m == IF Len(n) = 11 THEN n \o <<"A", "1">> ELSE n
               IN IF ~human_readable THEN Returned(Str(m))
                  ELSE Returned(Str(Slice(m, 0, 4) \o <<"/">> \o Slice(m, 4, 11)
                                    \o <<" ">> \o Slice(m, 11, Len(m))))

format_application_number(number, human_readable) ==
  IF number = None THEN Returned(None)
  ELSE LET n == re_sub(remove_whitespace(upper(number.s)), FALSE)
       IN IF n = <<>> THEN Raised("IndexError")       \* number[0] of ''
          ELSE LET application_number == rjust0(lstrip0(Tail(n)), 6)
                   m == IF n[1] = "D"
                          THEN <<"2", "9", "/">> \o Slice(application_number, 0, 3)
                               \o <<",">> \o Slice(application_number, 4, 6)
                        ELSE IF Len(n) = 8
                          THEN Slice(n, 0, 2) \o <<"/">> \o Slice(n, 2, 5)
                               \o <<",">> \o Slice(n, 5, Len(n))
                        ELSE n
               IN IF ~human_readable
                    THEN Returned(Str(remove_char(remove_char(m, "/"), ",")))
                    ELSE Returned(Str(m))

\* the letters line 177 excludes
NoPrefixLetters == {"P", "D", "T", "A", "R", "X"}

\* infer_document_type with '> 12' for '>= 12' on line 177
infer_document_type_gt(ref, reduced_ref, document_type) ==
  IF document_type # None THEN Returned(document_type)
  ELSE IF Len(reduced_ref) >= 11 THEN Returned(Ty("publication"))
  ELSE IF HasSlash(ref) THEN Returned(Ty("application"))
  ELSE IF Len(reduced_ref) = 8 /\ reduced_ref[1] \notin NoPrefixLetters
    THEN IF ~(reduced_ref[1] \in Digit /\ reduced_ref[2] \in Digit)
           THEN Raised("ValueError")
         ELSE IF 10 * DigitVal(reduced_ref[1]) + DigitVal(reduced_ref[2]) > 12
           THEN Returned(Ty("application"))
         ELSE Returned(Ty("patent"))
  ELSE Returned(Ty("patent"))

\* the document type of lines 172-180: the explicit one, or the inferred one;
\* int() raises ValueError on a string that is not a number
infer_document_type(ref, reduced_ref, document_type) ==
  IF document_type # None THEN Returned(document_type)
  ELSE IF Len(reduced_ref) >= 11 THEN Returned(Ty("publication"))
  ELSE IF HasSlash(ref) THEN Returned(Ty("application"))
  ELSE IF Len(reduced_ref) = 8 /\ reduced_ref[1] \notin NoPrefixLetters
    THEN IF ~(reduced_ref[1] \in Digit /\ reduced_ref[2] \in Digit)
           THEN Raised("ValueError")
         ELSE IF 10 * DigitVal(reduced_ref[1]) + DigitVal(reduced_ref[2]) >= 12
           THEN Returned(Ty("application"))
         ELSE Returned(Ty("patent"))
  ELSE Returned(Ty("patent"))

determine_reference_type(ref, document_type) ==
  LET reduced_ref == re_sub(remove_whitespace(upper(ref)), TRUE)
      ty == infer_document_type(ref, reduced_ref, document_type)
  IN IF ty.raised THEN ty
     ELSE LET formatted ==
                IF ty.ret = Ty("patent")
                  THEN format_patent_number(Str(reduced_ref), FALSE)
                ELSE IF ty.ret = Ty("publication")
                  THEN format_publication_number(Str(reduced_ref), FALSE)
                ELSE IF ty.ret = Ty("application")
                  THEN format_application_number(Str(reduced_ref), FALSE)
                ELSE Returned(Str(reduced_ref))
          IN IF formatted.raised THEN formatted
             ELSE IF formatted.ret = None
               THEN Returned(<<Bool(FALSE), None, None>>)
             ELSE Returned(<<Bool(TRUE), formatted.ret, ty.ret>>)

(***************************************************************************)
(* Inputs: reference identifiers as a user types them                      *)
(***************************************************************************)
NoisePrefixes ==
  { <<>>, <<"U", "S", " ">>, <<"D">>, <<"H">>, <<"R", "E">> }

LeadDigits ==
  { <<"0", "9">>, <<"1", "1">>, <<"1", "2">>, <<"2", "0">> }

TailDigits ==
  { <<"3", "4", "5", "6", "7", "8">>,
    <<",", "3", "4", "5", ",", "6", "7", "8">>,
    <<"/", "3", "4", "5", ",", "6", "7", "8">>,
    <<"0", "4", "5", "6", "7">>,
    <<"0", "6", "0", "1", "2", "3", "4", "5", "6">> }

OddBodies == { <<>>, <<"/">>, <<"A", "B", "C">> }

KindSuffixes == { <<>>, <<" ", "B", "2">>, <<"A", "1">> }

Bodies == {l \o t : l \in LeadDigits, t \in TailDigits} \cup OddBodies

Refs == {p \o b \o k : p \in NoisePrefixes, b \in Bodies, k \in KindSuffixes}

DocumentTypes == {Ty("patent"), Ty("publication"), Ty("application")}

\* the value of a variable before the call under study has returned
Pending == [pending |-> TRUE]

(***************************************************************************)
(* IndexResolver                                                           *)
(***************************************************************************)
\* str.replace on a URL held as a sequence of tokens
replace(s, old, new) == [i \in 1..Len(s) |-> IF s[i] = old THEN new ELSE s[i]]

urls(document_type) ==
  IF document_type = Ty("patent")
    THEN <<"https://bulkdata.uspto.gov/data/patent/grant/multipagepdf/", "YEAR",
           "/grant_pdf_", "DATE", ".tar">>
    ELSE <<"https://bulkdata.uspto.gov/data/patent/application/multipagepdf/",
           "YEAR", "/app_pdf_", "DATE", ".tar">>

\* 'No data found for {ref}.'
NoDataFound(ref) ==
  Returned(<<Bool(FALSE), Msg("No data found for", ref), None, None, None, None>>)

\* the success tuple of line 252 for the row the query fetched
RowResult(row, document_type) ==
  Returned(<<Bool(TRUE), Str(row.number), document_type,
             Str(replace(replace(urls(document_type), "YEAR", row.year_part),
                         "DATE", row.date_part)),
             Num(row.offset), Num(row.size)>>)

\* the rows 'where {number_type} match ? ...' selects: the indexed columns
\* hold one token each, so a match is the equality of the tokens
Matching(table, document_type, reduced_ref) ==
  {row \in table : IF document_type = Ty("application")
                     THEN row.application_number = reduced_ref
                     ELSE row.number = reduced_ref}

\* retrieve_ref_from_database probing the patents table after a hit in the
\* publications table and keeping the type of the first hit
retrieve_ref_from_database_both(pubs, pats, ref, document_type) ==
  IF ref = None THEN {Raised("AttributeError")}
  ELSE LET reduced_ref == remove_char(remove_char(ref.s, ","), "/")
           pub_hits == IF document_type \in {Ty("application"), Ty("publication")}
                         THEN Matching(pubs, document_type, reduced_ref)
                         ELSE {}
           pat_hits == IF document_type \in {Ty("application"), Ty("patent")}
                         THEN Matching(pats, document_type, reduced_ref)
                         ELSE {}
       IN IF pub_hits # {} /\ pat_hits # {}
            THEN {RowResult(row, Ty("publication")) : row \in pat_hits}
          ELSE IF pub_hits # {}
            THEN {RowResult(row, Ty("publication")) : row \in pub_hits}
          ELSE IF pat_hits # {}
            THEN {RowResult(row, Ty("patent")) : row \in pat_hits}
          ELSE {NoDataFound(ref)}

\* retrieve_ref_from_database answering 'No data found' as soon as the probe
\* of the publications table misses, without the probe of the patents table
retrieve_ref_from_database_no_second_probe(pubs, pats, ref, document_type) ==
  IF ref = None THEN {Raised("AttributeError")}
  ELSE LET reduced_ref == remove_char(remove_char(ref.s, ","), "/")
           pub_hits == IF document_type \in {Ty("application"), Ty("publication")}
                         THEN Matching(pubs, document_type, reduced_ref)
                         ELSE {}
           pat_hits == IF document_type = Ty("patent")
                         THEN Matching(pats, document_type, reduced_ref)
                         ELSE {}
       IN IF pub_hits # {}
            THEN {RowResult(row, Ty("publication")) : row \in pub_hits}
          ELSE IF pat_hits # {}
            THEN {RowResult(row, Ty("patent")) : row \in pat_hits}
          ELSE {NoDataFound(ref)}

\* The outcomes of retrieve_ref_from_database: 'limit 1' fetches any one of
\* the matching rows.  None.replace raises AttributeError.
retrieve_ref_from_database(pubs, pats, ref, document_type) ==
  IF ref = None THEN {Raised("AttributeError")}
  ELSE LET reduced_ref == remove_char(remove_char(ref.s, ","), "/")
           pub_hits == IF document_type \in {Ty("application"), Ty("publication")}
                         THEN Matching(pubs, document_type, reduced_ref)
                         ELSE {}
           pat_hits == IF document_type \in {Ty("application"), Ty("patent")}
                         THEN Matching(pats, document_type, reduced_ref)
                         ELSE {}
       IN IF pub_hits # {}
            THEN {RowResult(row, Ty("publication")) : row \in pub_hits}
          ELSE IF pat_hits # {}
            THEN {RowResult(row, Ty("patent")) : row \in pat_hits}
          ELSE {NoDataFound(ref)}

\* What the lookup service may answer: the fields of the JSON object, None
\* for a field it lacks; or no usable answer (an exception, caught)
FullLocation == [url |-> Str(<<"u">>), offset |-> Num(0), size |-> Num(3)]

ApiLocations ==
  { FullLocation,
    [FullLocation EXCEPT !.url = None],
    [FullLocation EXCEPT !.offset = None],
    [FullLocation EXCEPT !.size = None] }

ApiResponses(ref) ==
  {[reduced_ref |-> ref, type |-> t, loc |-> FullLocation] : t \in DocumentTypes}
  \cup {[reduced_ref |-> ref, type |-> Ty("patent"), loc |-> l] : l \in ApiLocations}
  \cup {[reduced_ref |-> None, type |-> Ty("patent"), loc |-> FullLocation],
        [reduced_ref |-> ref, type |-> None, loc |-> FullLocation]}

retrieve_ref_from_bti_api(ref, document_type) ==
  {Returned(<<Bool(TRUE), r.reduced_ref, r.type, r.loc.url, r.loc.offset, r.loc.size>>) :
      r \in ApiResponses(ref)}
  \cup {Returned(<<Bool(FALSE), Msg("Error while querying BTI API", ref),
                   None, None, None, None>>)}

(***************************************************************************)
(* CacheStore and the fetch pipeline                                       *)
(***************************************************************************)
determine_local_filename(ref, document_type) ==
  IF document_type = Ty("patent")
    THEN LET reduced_ref == format_patent_number(ref, TRUE).ret
         IN IF reduced_ref # None
              THEN Str(<<"U.S. Patent No. ">> \o reduced_ref.s \o <<".pdf">>)
              ELSE None
  ELSE IF document_type = Ty("publication")
    THEN LET reduced_ref == format_publication_number(ref, FALSE).ret
         IN IF reduced_ref # None
              THEN Str(<<"U.S. Pub. No. ">> \o reduced_ref.s \o <<".pdf">>)
              ELSE None
  ELSE IF document_type = Ty("Application")
    THEN LET reduced_ref == format_application_number(ref, FALSE).ret
         IN IF reduced_ref # None
              THEN Str(<<"U.S. App. No. ">> \o reduced_ref.s \o <<".pdf">>)
              ELSE None
  ELSE None

\* os.path.join(documents_path, local_filename)
path_join(local_filename) == Str(<<"documents/">> \o local_filename.s)

\* The outcomes of retrieve_document_from_bdss as its caller sees them: the
\* returned tuple and the files afterwards.  'offset + size' and Request(url)
\* raise on None, inside the try.  urlopen or open may raise before the file
\* exists; open(local_filename, 'wb') creates it; a read or write may raise
\* after that; all are caught.
retrieve_document_from_bdss(url, offset, size, local_filename, fs) ==
  LET failure == <<Bool(FALSE), Msg("Exception while retrieving PDF from BDSS", None)>>
      success == <<Bool(TRUE), Msg("Retrieved from BDSS", local_filename), local_filename>>
  IN IF url = None \/ offset = None \/ size = None
       THEN {[ret |-> failure, files |-> fs]}
     ELSE {[ret |-> failure, files |-> fs],
           [ret |-> failure, files |-> fs \cup {local_filename}],
           [ret |-> success, files |-> fs \cup {local_filename}]}

\* one way a fetch call can go
FetchRun(out, called, res, fs, cached) ==
  [out |-> out, calls |-> called, resolved |-> res, files |-> fs,
   cached |-> cached]

\* fetch_document retrieving the document again when it is cached
fetch_document_refetch(env, ref, result, called) ==
  LET reduced_ref == result[2]
      document_type == result[3]
      local_filename == determine_local_filename(reduced_ref, document_type)
  IN IF local_filename = None
       THEN {FetchRun(Raised("TypeError"), called, Returned(result), env.files, FALSE)}
     ELSE {FetchRun(Returned(<<r.ret[1], r.ret[2], path_join(local_filename)>>),
                    Append(called, "retrieve_document_from_bdss"),
                    Returned(result), r.files,
                    path_join(local_filename) \in env.files) :
             r \in retrieve_document_from_bdss(result[4], result[5], result[6],
                                               path_join(local_filename), env.files)}

\* lines 130-141, once the resolver has returned success with an entry
fetch_document(env, ref, result, called) ==
  LET reduced_ref == result[2]
      document_type == result[3]
      local_filename == determine_local_filename(reduced_ref, document_type)
  IN IF local_filename = Bool(FALSE)           \* 'local_filename is False'
       THEN {FetchRun(Returned(<<Bool(FALSE), Msg("Could not determine filename for", ref), None>>),
                      called, Returned(result), env.files, FALSE)}
     ELSE IF local_filename = None             \* os.path.join(documents_path, None)
       THEN {FetchRun(Raised("TypeError"), called, Returned(result), env.files, FALSE)}
     ELSE IF path_join(local_filename) \in env.files
       THEN {FetchRun(Returned(<<Bool(TRUE), Msg("already exists", <<document_type, ref>>),
                                 path_join(local_filename)>>),
                      called, Returned(result), env.files, TRUE)}
     ELSE {FetchRun(Returned(<<r.ret[1], r.ret[2], path_join(local_filename)>>),
                    Append(called, "retrieve_document_from_bdss"),
                    Returned(result), r.files, FALSE) :
             r \in retrieve_document_from_bdss(result[4], result[5], result[6],
                                               path_join(local_filename), env.files)}

\* lines 115-127: the index lookup and what fetch makes of its result
fetch_resolve(env, ref, reduced_ref, document_type) ==
  LET resolver == IF env.db_present THEN "retrieve_ref_from_database"
                  ELSE "retrieve_ref_from_bti_api"
      results == IF env.db_present
                   THEN retrieve_ref_from_database(env.publications, env.patents,
                                                   reduced_ref, document_type)
                   ELSE retrieve_ref_from_bti_api(reduced_ref, document_type)
      after(result) ==
        IF result.raised THEN {FetchRun(result, <<resolver>>, result, env.files, FALSE)}
        ELSE IF result.ret[1] = Bool(FALSE)
          THEN {FetchRun(result, <<resolver>>, result, env.files, FALSE)}
        ELSE IF result.ret[2] = None \/ result.ret[3] = None
          THEN {FetchRun(Returned(<<Bool(FALSE), Msg("No index entry for", ref), None>>),
                         <<resolver>>, result, env.files, FALSE)}
        ELSE fetch_document(env, ref, result.ret, <<resolver>>)
  IN UNION {after(result) : result \in results}

\* BDSS_Interface.fetch: every way the call can go in the environment env
\* (the index file, its tables, the files of the documents path)
fetch(env, ref, document_type) ==
  LET normalized == determine_reference_type(ref, document_type)
  IN IF normalized.raised
       THEN {FetchRun(normalized, <<>>, Pending, env.files, FALSE)}
     ELSE IF normalized.ret[1] = None          \* 'result is None'
       THEN {FetchRun(Returned(<<Bool(FALSE), Msg("Unable to determine file type of", ref), None>>),
                      <<>>, Pending, env.files, FALSE)}
     ELSE fetch_resolve(env, ref, normalized.ret[2], normalized.ret[3])

(***************************************************************************)
(* Each specification below runs one part of the program and leaves the   *)
(* variables of the other parts at these values.                           *)
(***************************************************************************)
NormIdle == norm_in = Pending /\ norm_out = Pending

FormatIdle == fmt_in = Pending /\ fmt_out = Pending

FetchIdle ==
  /\ db_present = FALSE /\ publications = {} /\ patents = {}
  /\ files = {} /\ retrieved_ok = {}
  /\ fetch_in = Pending /\ fetch_out = Pending /\ calls = <<>>
  /\ resolved = Pending

RangeIdle ==
  /\ r_pc = "idle" /\ r_size = 0 /\ r_stream = 0 /\ r_num_chunks = 0
  /\ r_total = 0 /\ r_file = -1 /\ r_last = 0 /\ r_result = Pending

FileIdle ==
  /\ ff_pc = "idle" /\ ff_tmp = None /\ ff_dest = None /\ ff_dest0 = None
  /\ ff_stream = 0 /\ ff_msgs = <<>> /\ ff_result = Pending
  /\ ff_failed_at = "none"

WorkerIdle ==
  /\ workers = {} /\ output_queue = <<>> /\ procs = <<>>
  /\ button_fetch = "NORMAL" /\ button_script_fetch = "DISABLED"
  /\ drained = {}

(***************************************************************************)
(* SpecNorm: one call of determine_reference_type                          *)
(***************************************************************************)
NormInit ==
  /\ norm_in \in [ref : Refs, document_type : DocumentTypes \cup {None}]
  /\ norm_out = Pending
  /\ FormatIdle /\ FetchIdle /\ RangeIdle /\ FileIdle /\ WorkerIdle

Normalize ==
  /\ norm_out = Pending
  /\ norm_out' = determine_reference_type(norm_in.ref, norm_in.document_type)
  /\ UNCHANGED <<norm_in, format_vars, fetch_vars, range_vars, file_vars,
                 worker_vars>>

NormNext == Normalize

SpecNorm == NormInit /\ [][NormNext]_vars

(***************************************************************************)
(* SpecFormat: one call of format_application_number or of                 *)
(* determine_local_filename                                                *)
(***************************************************************************)
\* the digits of design application numbers as a user types them
DesignDigits ==
  { <<>>, <<"6">>, <<"5", "6">>, <<"4", "5", "6">>, <<"3", "4", "5", "6">>,
    <<"2", "3", "4", "5", "6">>, <<"1", "2", "3", "4", "5", "6">>,
    <<"0", "0", "7", "8", "9">>, <<"0", "1", "2", "3", "4", "5">>,
    <<"9", "0", "8", "1", "7", "2">>, <<"5", "5", "5", "5", "5", "5">>,
    <<"1", "2", "3", "4", "5", "6", "7">> }

\* the arguments of format_application_number
ApplicationNumbers ==
  {<<"D">> \o d : d \in DesignDigits}
  \cup {<<"U", "S", " ", "D">> \o d : d \in DesignDigits}
  \cup { <<"D", "1", "2", "3", ",", "4", "5", "6">>,
         <<"D", "/", "1", "2", "3", "4", "5", "6">>,
         <<"1", "2", "3", "4", "5", "6", "7", "8">>,
         <<"1", "2", "/", "3", "4", "5", ",", "6", "7", "8">>,
         <<"2", "9", "1", "2", "3", "4", "5", "6">>,
         <<"1", "2", "3", "4", "5">>,
         <<>> }

\* the numbers the index resolvers hand to determine_local_filename
IndexedNumbers ==
  { <<"9", "3", "4", "5", "6", "7", "8">>,
    <<"3", "4", "5", "6", "7", "8">>,
    <<"4", "5", "6">>,
    <<"D", "1", "2", "3", "4", "5", "6">>,
    <<"R", "E", "4", "5", "6", "7", "8">>,
    <<"H", "9", "0", "4">>,
    <<"2", "0", "0", "6", "0", "1", "2", "3", "4", "5", "6", "A", "1">>,
    <<"2", "0", "0", "9", "0", "1", "2", "3", "4", "5", "6", "A", "9">>,
    <<"2", "0", "0", "6", "0", "1", "2", "3", "4", "5", "6">>,
    <<"1", "2", "3", "4", "5", "6", "7", "8">>,
    <<"0", "9", "3", "4", "5", "6", "7", "8">>,
    <<"2", "9", "1", "2", "3", "4", "5", "6">> }

FormatInit ==
  /\ fmt_in \in
       [call : {"format_application_number"},
        number : {Str(n) : n \in ApplicationNumbers},
        human_readable : BOOLEAN]
       \cup
       [call : {"determine_local_filename"},
        ref : {Str(n) : n \in IndexedNumbers},
        document_type : DocumentTypes]
  /\ fmt_out = Pending
  /\ NormIdle /\ FetchIdle /\ RangeIdle /\ FileIdle /\ WorkerIdle

FormatOthers == <<norm_vars, fetch_vars, range_vars, file_vars, worker_vars>>

FormatApplicationNumber ==
  /\ fmt_out = Pending
  /\ fmt_in.call = "format_application_number"
  /\ fmt_out' = format_application_number(fmt_in.number, fmt_in.human_readable)
  /\ UNCHANGED <<fmt_in, FormatOthers>>

DetermineLocalFilename ==
  /\ fmt_out = Pending
  /\ fmt_in.call = "determine_local_filename"
  /\ fmt_out' = Returned(determine_local_filename(fmt_in.ref, fmt_in.document_type))
  /\ UNCHANGED <<fmt_in, FormatOthers>>

FormatNext == FormatApplicationNumber \/ DetermineLocalFilename

SpecFormat == FormatInit /\ [][FormatNext]_vars

(***************************************************************************)
(* SpecFetch: calls of BDSS_Interface.fetch, one after the other, on one   *)
(* documents path                                                          *)
(***************************************************************************)
FetchRefs ==
  { <<"0", "9", "3", "4", "5", "6", "7", "8">>,
    <<"1", "2", "3", "4", "5", "6", "7", "8">>,
    <<"2", "0", "0", "6", "0", "1", "2", "3", "4", "5", "6">>,
    <<"H", "0", "9", "0", "4", "5", "6", "7">>,
    <<"A", "B", "C">>,
    <<"/">> }

\* rows the tables of bti.sqlite may hold, joined with their date_codes row
PublicationRows ==
  { [number |-> <<"2", "0", "0", "6", "0", "1", "2", "3", "4", "5", "6", "A", "1">>,
     application_number |-> <<"1", "2", "3", "4", "5", "6", "7", "8">>,
     year_part |-> "2006", date_part |-> "20060608", offset |-> 10, size |-> 3],
    [number |-> <<"2", "0", "0", "9", "0", "1", "2", "3", "4", "5", "6", "A", "9">>,
     application_number |-> <<"1", "2", "3", "4", "5", "6", "7", "8">>,
     year_part |-> "2009", date_part |-> "20090514", offset |-> 20, size |-> 4] }

PatentRows ==
  { [number |-> <<"9", "3", "4", "5", "6", "7", "8">>,
     application_number |-> <<"1", "2", "3", "4", "5", "6", "7", "8">>,
     year_part |-> "2016", date_part |-> "20160517", offset |-> 30, size |-> 5] }

Env == [db_present |-> db_present, publications |-> publications,
        patents |-> patents, files |-> files]

FetchInit ==
  /\ db_present \in BOOLEAN
  /\ publications \in {{}, PublicationRows}
  /\ patents \in {{}, PatentRows}
  /\ ~db_present => publications = {} /\ patents = {}
  /\ files = {} /\ retrieved_ok = {}
  /\ fetch_in = Pending /\ fetch_out = Pending /\ calls = <<>>
  /\ resolved = Pending
  /\ NormIdle /\ FormatIdle /\ RangeIdle /\ FileIdle /\ WorkerIdle

\* the range fetch of this run returned success
RetrievedOk(run) ==
  /\ Len(run.calls) = 2
  /\ ~run.out.raised
  /\ run.out.ret[1] = Bool(TRUE)

\* one call of fetch, from its first line to its return or its exception
Fetch ==
  /\ fetch_out = Pending
  /\ \E ref \in FetchRefs, document_type \in DocumentTypes \cup {None} :
       \E run \in fetch(Env, ref, document_type) :
         /\ fetch_in' = [ref |-> ref, document_type |-> document_type,
                         cached |-> run.cached]
         /\ fetch_out' = run.out
         /\ calls' = run.calls
         /\ resolved' = run.resolved
         /\ files' = run.files
         /\ retrieved_ok' = IF RetrievedOk(run) THEN retrieved_ok \cup {run.out.ret[3]}
                            ELSE retrieved_ok
  /\ UNCHANGED <<db_present, publications, patents>>
  /\ UNCHANGED <<norm_vars, format_vars, range_vars, file_vars, worker_vars>>

\* run_from_command_line, lines 54-57: the caller takes the result and the
\* process ends; the documents path keeps its files
FetchReturn ==
  /\ fetch_out # Pending
  /\ fetch_in' = Pending /\ fetch_out' = Pending /\ calls' = <<>>
  /\ resolved' = Pending
  /\ UNCHANGED <<db_present, publications, patents, files, retrieved_ok>>
  /\ UNCHANGED <<norm_vars, format_vars, range_vars, file_vars, worker_vars>>

FetchNext == Fetch \/ FetchReturn

SpecFetch == FetchInit /\ [][FetchNext]_vars

(***************************************************************************)
(* Claims about the reference normalizer, under SpecNorm                   *)
(***************************************************************************)
\* the string line 171 reduces the raw input to
ReducedInput == re_sub(remove_whitespace(upper(norm_in.ref)), TRUE)

\* the case of C8: no explicit type, no slash in the raw input, and a reduced
\* string of exactly 8 digits
EightDigits ==
  /\ norm_in.document_type = None
  /\ ~HasSlash(norm_in.ref)
  /\ Len(ReducedInput) = 8
  /\ \A i \in 1..8 : ReducedInput[i] \in Digit

\* C8: with no explicit type, an input that reduces to exactly 8 digits is
\* classified 'patent' when its first two digits are below 12 and
\* 'application' when they are 12 or above.
C8_EightDigitThreshold ==
  (norm_out # Pending /\ EightDigits) =>
    /\ ~norm_out.raised
    /\ norm_out.ret[1] = Bool(TRUE)
    /\ norm_out.ret[3] =
         IF 10 * DigitVal(ReducedInput[1]) + DigitVal(ReducedInput[2]) < 12
           THEN Ty("patent") ELSE Ty("application")

\* an 8-digit input beginning with 12 has been classified an application
C8_Witness ==
  /\ norm_out # Pending /\ EightDigits
  /\ ReducedInput[1] = "1" /\ ReducedInput[2] = "2"
  /\ norm_out.ret[3] = Ty("application")

(***************************************************************************)
(* Claims about fetch, under SpecFetch                                     *)
(***************************************************************************)
Resolvers == {"retrieve_ref_from_database", "retrieve_ref_from_bti_api"}

Invoked(f) == \E i \in 1..Len(calls) : calls[i] = f

\* the last call found a file at the cache path it computed
CacheHit == fetch_in # Pending /\ fetch_in.cached

C4_FetchNeverRaises == fetch_out # Pending => ~fetch_out.raised

\* determine_reference_type returns its failure result for the arguments of
\* the last fetch call
NormalizationFails ==
  /\ fetch_in # Pending
  /\ LET n == determine_reference_type(fetch_in.ref, fetch_in.document_type)
     IN ~n.raised /\ n.ret = <<Bool(FALSE), None, None>>

\* C5: when normalization fails, fetch returns (False, 'Unable to determine
\* file type of <ref>.', None) and invokes neither index backend nor the
\* range fetcher.
C5_NormalizationFailureReturned ==
  NormalizationFails =>
    /\ fetch_out = Returned(<<Bool(FALSE),
                              Msg("Unable to determine file type of", fetch_in.ref),
                              None>>)
    /\ calls = <<>>

\* C9: every return of fetch is a 3-element result whose third value is the
\* filename of the stored document when the flag is True and None when the
\* flag is False.
C9_ThreeElementResult ==
  (fetch_out # Pending /\ ~fetch_out.raised) =>
    /\ Len(fetch_out.ret) = 3
    /\ fetch_out.ret[1] = Bool(TRUE) => fetch_out.ret[3] \in files
    /\ fetch_out.ret[1] = Bool(FALSE) => fetch_out.ret[3] = None

\* the archive URL of a row of the table a document type names
ArchiveUrl(document_type, row) ==
  IF document_type = Ty("patent")
    THEN <<"https://bulkdata.uspto.gov/data/patent/grant/multipagepdf/",
           row.year_part, "/grant_pdf_", row.date_part, ".tar">>
    ELSE <<"https://bulkdata.uspto.gov/data/patent/application/multipagepdf/",
           row.year_part, "/app_pdf_", row.date_part, ".tar">>

\* retrieve_ref_from_database has returned success to the last fetch call
DatabaseHit ==
  /\ db_present /\ resolved # Pending
  /\ ~resolved.raised
  /\ resolved.ret[1] = Bool(TRUE)

\* C10: when retrieve_ref_from_database returns success, the returned type
\* is 'publication' or 'patent' and names the table holding a row with the
\* returned number, offset and size, and the URL is that type's template
\* expanded with that row's year and date.
C10_ResultFromOneRow ==
  DatabaseHit =>
    /\ resolved.ret[3] \in {Ty("publication"), Ty("patent")}
    /\ \E row \in (IF resolved.ret[3] = Ty("patent") THEN patents ELSE publications) :
         /\ resolved.ret[2] = Str(row.number)
         /\ resolved.ret[5] = Num(row.offset)
         /\ resolved.ret[6] = Num(row.size)
         /\ resolved.ret[4] = Str(ArchiveUrl(resolved.ret[3], row))

\* an application number has resolved to a publication while a patent of the
\* same application is indexed too
C10_Witness ==
  /\ DatabaseHit
  /\ determine_reference_type(fetch_in.ref, fetch_in.document_type).ret[3]
       = Ty("application")
  /\ resolved.ret[3] = Ty("publication")
  /\ patents # {}

\* the query the last fetch call handed to retrieve_ref_from_database: the
\* normalized reference, the same with ',' and '/' removed (line 225), and
\* its type
Query ==
  LET n == determine_reference_type(fetch_in.ref, fetch_in.document_type).ret
  IN [ref |-> n[2],
      reduced_ref |-> remove_char(remove_char(n[2].s, ","), "/"),
      document_type |-> n[3]]

\* retrieve_ref_from_database has returned to the last fetch call
DatabaseQueried ==
  /\ db_present /\ resolved # Pending
  /\ ~resolved.raised

\* the rows a probe of the publications table can fetch for the query; none
\* when the probe is not due for the type
PublicationProbe ==
  IF Query.document_type \in {Ty("application"), Ty("publication")}
    THEN Matching(publications, Query.document_type, Query.reduced_ref)
    ELSE {}

\* the rows a probe of the patents table can fetch for the query; none when
\* the probe is not due for the type
PatentProbe ==
  IF Query.document_type \in {Ty("application"), Ty("patent")}
    THEN Matching(patents, Query.document_type, Query.reduced_ref)
    ELSE {}

C12_CacheOnlyAfterSuccess ==
  /\ files \subseteq retrieved_ok
  /\ CacheHit => fetch_out.ret[3] \in retrieved_ok

\* the lookup service has answered the last fetch call with a JSON object
\* that lacks one of the fields reduced_ref, type, url, offset, size
LookupLacksField ==
  /\ ~db_present /\ resolved # Pending
  /\ ~resolved.raised
  /\ resolved.ret[1] = Bool(TRUE)
  /\ \E i \in 2..6 : resolved.ret[i] = None

\* the last fetch call has reached the os.path.isfile test of line 135
CacheConsulted ==
  fetch_in # Pending /\ (fetch_in.cached \/ Invoked("retrieve_document_from_bdss"))

\* C13: when the response of the lookup service lacks one of its five fields,
\* fetch returns failure without having consulted the cache path and without
\* having invoked the range fetcher.
C13_MissingFieldIsResolutionFailure ==
  LookupLacksField =>
    /\ ~fetch_out.raised
    /\ fetch_out.ret[1] = Bool(FALSE)
    /\ ~CacheConsulted
    /\ ~Invoked("retrieve_document_from_bdss")

(***************************************************************************)
(* Claims about the formatters and the cache filename, under SpecFormat    *)
(***************************************************************************)
\* the digits after the prefix when the argument is 'D' followed by at most
\* six digits
DesignNumber ==
  /\ fmt_in.call = "format_application_number"
  /\ Len(fmt_in.number.s) \in 1..7
  /\ fmt_in.number.s[1] = "D"
  /\ \A i \in 2..Len(fmt_in.number.s) : fmt_in.number.s[i] \in Digit

\* the digits of a design number padded with zeros on the left to six
SixDigits ==
  LET d == Tail(fmt_in.number.s)
  IN [i \in 1..6 |-> IF i <= 6 - Len(d) THEN "0" ELSE d[i - (6 - Len(d))]]

\* C14: for an application number with prefix 'D', format_application_number
\* returns '29/xxx,xxx' holding the six zero-padded digits in order when
\* human_readable is True, and '29' followed by the same six digits when
\* human_readable is False.
C14_DesignNumberKeepsSixDigits ==
  (fmt_out # Pending /\ DesignNumber) =>
    fmt_out =
      Returned(Str(IF fmt_in.human_readable
                     THEN <<"2", "9", "/">> \o SubSeq(SixDigits, 1, 3)
                          \o <<",">> \o SubSeq(SixDigits, 4, 6)
                     ELSE <<"2", "9">> \o SixDigits))

\* the prefix of the filenames of a document type
FilenamePrefix(document_type) ==
  IF document_type = Ty("patent") THEN <<"U.S. Patent No. ">>
  ELSE IF document_type = Ty("publication") THEN <<"U.S. Pub. No. ">>
  ELSE <<"U.S. App. No. ">>

\* the human-readable form of a number for its document type; the
\* publication form is cut after YYYY/NNNNNNN, before the kind suffix
DisplayForm(ref, document_type) ==
  IF document_type = Ty("patent") THEN format_patent_number(ref, TRUE)
  ELSE IF document_type = Ty("application")
    THEN format_application_number(ref, TRUE)
  ELSE LET f == format_publication_number(ref, TRUE)
       IN IF f.ret = None THEN f ELSE Returned(Str(Slice(f.ret.s, 0, 12)))

\* determine_local_filename was called with a number that has a display form
\* for its type
HasDisplayForm ==
  /\ fmt_in.call = "determine_local_filename"
  /\ ~DisplayForm(fmt_in.ref, fmt_in.document_type).raised
  /\ DisplayForm(fmt_in.ref, fmt_in.document_type).ret # None

\* C15: for each of the types 'patent', 'publication' and 'application',
\* determine_local_filename returns the type's prefix followed by the
\* human-readable display form of the number (comma-grouped for patents,
\* YYYY/NNNNNNN without the kind suffix for publications, slash/comma form for
\* applications) and '.pdf'.
C15_FilenameFromDisplayForm ==
  (fmt_out # Pending /\ HasDisplayForm) =>
    fmt_out =
      Returned(Str(FilenamePrefix(fmt_in.document_type)
                   \o DisplayForm(fmt_in.ref, fmt_in.document_type).ret.s
                   \o <<".pdf">>))

(***************************************************************************)
(* SpecRange: one call of retrieve_document_from_bdss, statement by        *)
(* statement.  Sizes are in bytes; ChunkSize stands for chunk_size         *)
(* (65536), scaled down with the sizes.                                    *)
(***************************************************************************)
ChunkSize == 2
MaxSize == 5
MaxStream == 7

Min(a, b) == IF a <= b THEN a ELSE b

\* the tuples of lines 320 and 322
RangeSuccess == <<Bool(TRUE), "Retrieved", "local_filename">>
RangeFailure == <<Bool(FALSE), "Exception while retrieving PDF from BDSS">>

\* read_loop_step leaving the loop on a short chunk before writing it
read_loop_step_break_first(st) ==
  LET n == Min(ChunkSize, st.stream)
      num_chunks == st.num_chunks + 1
      short == n < ChunkSize
  IN [stream |-> st.stream - n,
      num_chunks |-> num_chunks,
      total |-> st.total + n,
      file |-> IF n > 0 /\ ~short THEN st.file + n ELSE st.file,
      last |-> n,
      break |-> short \/ num_chunks * ChunkSize > st.size,
      size |-> st.size]

\* read_loop_step leaving the loop as soon as the chunks counted reach the
\* declared size
read_loop_step_exit_at_size(st) ==
  LET n == Min(ChunkSize, st.stream)
      num_chunks == st.num_chunks + 1
  IN [stream |-> st.stream - n,
      num_chunks |-> num_chunks,
      total |-> st.total + n,
      file |-> IF n > 0 THEN st.file + n ELSE st.file,
      last |-> n,
      break |-> n < ChunkSize \/ num_chunks * ChunkSize >= st.size,
      size |-> st.size]

\* one iteration of the loop of lines 313-319 in which nothing raises:
\* response.read(chunk_size) returns chunk_size bytes, or what is left of the
\* response when that is less
read_loop_step(st) ==
  LET n == Min(ChunkSize, st.stream)
      num_chunks == st.num_chunks + 1
  IN [stream |-> st.stream - n,
      num_chunks |-> num_chunks,
      total |-> st.total + n,
      file |-> IF n > 0 THEN st.file + n ELSE st.file,
      last |-> n,
      break |-> n < ChunkSize \/ num_chunks * ChunkSize > st.size,
      size |-> st.size]

RangeState ==
  [stream |-> r_stream, num_chunks |-> r_num_chunks, total |-> r_total,
   file |-> r_file, last |-> r_last, break |-> FALSE, size |-> r_size]

RangeInit ==
  /\ r_pc = "urlopen"
  /\ r_size \in 0..MaxSize
  /\ r_stream \in 0..MaxStream
  /\ r_num_chunks = 0 /\ r_total = 0 /\ r_file = -1 /\ r_last = 0
  /\ r_result = Pending
  /\ NormIdle /\ FormatIdle /\ FetchIdle /\ FileIdle /\ WorkerIdle

\* the exception handler of lines 321-322
RangeRaise ==
  /\ r_pc' = "done"
  /\ r_result' = RangeFailure

\* line 311: urllib.request.urlopen(request) answers or raises
RangeUrlopen ==
  /\ r_pc = "urlopen"
  /\ \/ r_pc' = "open" /\ UNCHANGED r_result
     \/ RangeRaise
  /\ UNCHANGED <<r_size, r_stream, r_num_chunks, r_total, r_file, r_last>>
  /\ UNCHANGED <<norm_vars, format_vars, fetch_vars, file_vars, worker_vars>>

\* line 312: open(local_filename, 'wb') creates the file empty, or raises
RangeOpen ==
  /\ r_pc = "open"
  /\ \/ r_pc' = "loop" /\ r_file' = 0 /\ UNCHANGED r_result
     \/ RangeRaise /\ UNCHANGED r_file
  /\ UNCHANGED <<r_size, r_stream, r_num_chunks, r_total, r_last>>
  /\ UNCHANGED <<norm_vars, format_vars, fetch_vars, file_vars, worker_vars>>

\* lines 314-319: one iteration; the with blocks close and line 320 returns
\* when the loop breaks
RangeIterate ==
  /\ r_pc = "loop"
  /\ LET st == read_loop_step(RangeState)
     IN /\ r_stream' = st.stream
        /\ r_num_chunks' = st.num_chunks
        /\ r_total' = st.total
        /\ r_file' = st.file
        /\ r_last' = st.last
        /\ IF st.break
             THEN r_pc' = "done" /\ r_result' = RangeSuccess
             ELSE r_pc' = "loop" /\ UNCHANGED r_result
  /\ UNCHANGED r_size
  /\ UNCHANGED <<norm_vars, format_vars, fetch_vars, file_vars, worker_vars>>

\* line 314: response.read raises (timeout, connection reset)
RangeReadRaises ==
  /\ r_pc = "loop"
  /\ RangeRaise
  /\ UNCHANGED <<r_size, r_stream, r_num_chunks, r_total, r_file, r_last>>
  /\ UNCHANGED <<norm_vars, format_vars, fetch_vars, file_vars, worker_vars>>

\* line 317: f.write raises after the chunk has been read
RangeWriteRaises ==
  /\ r_pc = "loop"
  /\ r_stream > 0
  /\ LET n == Min(ChunkSize, r_stream)
     IN /\ r_stream' = r_stream - n
        /\ r_total' = r_total + n
        /\ r_last' = n
        /\ r_num_chunks' = r_num_chunks + 1
  /\ RangeRaise
  /\ UNCHANGED <<r_size, r_file>>
  /\ UNCHANGED <<norm_vars, format_vars, fetch_vars, file_vars, worker_vars>>

RangeNext ==
  \/ RangeUrlopen
  \/ RangeOpen
  \/ RangeIterate
  \/ RangeReadRaises
  \/ RangeWriteRaises

SpecRange == RangeInit /\ [][RangeNext]_vars

\* C7: the read loop stops at the first chunk shorter than the chunk size,
\* and whenever the call returns success the size of the local file equals
\* the number of bytes read from the response.
C7_FileSizeIsBytesRead ==
  /\ (r_pc = "loop" /\ r_num_chunks > 0) => r_last = ChunkSize
  /\ (r_pc = "done" /\ r_result = RangeSuccess) =>
       r_file = r_total

\* a call has returned success after several chunks, the last one short and
\* not empty
C7_Witness ==
  /\ r_pc = "done" /\ r_result = RangeSuccess
  /\ r_num_chunks >= 2
  /\ r_last > 0 /\ r_last < ChunkSize

\* the exit test of line 318 restated on the bytes actually read: the last
\* chunk was short, or the bytes read so far exceed the declared size
ExitOnBytesRead == r_last < ChunkSize \/ r_total > r_size

\* C18: the read loop ends exactly when a short chunk is received or the
\* cumulative number of bytes read exceeds the declared size: after every
\* iteration the loop goes on only if the test on the bytes read is false,
\* and it has ended with the return of line 320 only if that test is true.
C18_ExitTestOnBytesRead ==
  /\ (r_pc = "loop" /\ r_num_chunks > 0) => ~ExitOnBytesRead
  /\ (r_pc = "done" /\ r_result = RangeSuccess) => ExitOnBytesRead

\* the loop has ended on the size test alone: every chunk was full, the
\* response held more, and the bytes read exceed the declared size
C18_Witness ==
  /\ r_pc = "done" /\ r_result = RangeSuccess
  /\ r_num_chunks >= 2
  /\ r_last = ChunkSize
  /\ r_stream > 0
  /\ r_total > r_size

(***************************************************************************)
(* SpecFile: one call of fetch_file, statement by statement.  A file is    *)
(* None when absent, else a record of whose bytes it holds; the response   *)
(* is ff_stream full chunks followed by a short one.                       *)
(***************************************************************************)
MaxChunks == 2

OldFile == [content |-> "old"]
Download(chunks, complete) ==
  [content |-> "download", chunks |-> chunks, complete |-> complete]

\* the handler without the unlink of the temporary file
cleanup_keep(temp_file) == temp_file

\* lines 524-525: if os.path.isfile(temp_file): os.unlink(temp_file)
cleanup(temp_file) == None

FileInit ==
  /\ ff_pc = "unlink_tmp"
  /\ ff_tmp \in {None, Download(0, FALSE)}
  /\ ff_dest \in {None, OldFile}
  /\ ff_dest0 = ff_dest
  /\ ff_stream \in 0..MaxChunks
  /\ ff_msgs = <<>>
  /\ ff_result = Pending
  /\ ff_failed_at = "none"
  /\ NormIdle /\ FormatIdle /\ FetchIdle /\ RangeIdle /\ WorkerIdle

\* lines 523-526: an exception raised at the step 'at' reaches the handler
FileRaise(at, temp_file) ==
  /\ ff_pc' = "done"
  /\ ff_failed_at' = at
  /\ ff_tmp' = cleanup(temp_file)
  /\ ff_result' = <<Bool(FALSE), "Error">>

FileOthers == <<norm_vars, format_vars, fetch_vars, range_vars, worker_vars>>

\* lines 500-501
FileUnlinkTmp ==
  /\ ff_pc = "unlink_tmp"
  /\ ff_pc' = "urlopen"
  /\ ff_tmp' = None
  /\ UNCHANGED <<ff_dest, ff_dest0, ff_stream, ff_msgs, ff_result, ff_failed_at>>
  /\ UNCHANGED FileOthers

\* line 504: urlopen answers or raises
FileUrlopen ==
  /\ ff_pc = "urlopen"
  /\ \/ ff_pc' = "open" /\ UNCHANGED <<ff_tmp, ff_result, ff_failed_at>>
     \/ FileRaise("urlopen", ff_tmp)
  /\ UNCHANGED <<ff_dest, ff_dest0, ff_stream, ff_msgs>>
  /\ UNCHANGED FileOthers

\* line 505: open(temp_file, 'wb') creates the temporary file or raises
FileOpen ==
  /\ ff_pc = "open"
  /\ \/ /\ ff_pc' = "loop"
        /\ ff_tmp' = Download(0, FALSE)
        /\ UNCHANGED <<ff_result, ff_failed_at>>
     \/ FileRaise("open", ff_tmp)
  /\ UNCHANGED <<ff_dest, ff_dest0, ff_stream, ff_msgs>>
  /\ UNCHANGED FileOthers

\* lines 507-514 on a full chunk: written, counted, and reported when more
\* than 0.5 s have passed since the last message
FileFullChunk ==
  /\ ff_pc = "loop"
  /\ ff_stream > 0
  /\ ff_stream' = ff_stream - 1
  /\ ff_tmp' = Download(ff_tmp.chunks + 1, FALSE)
  /\ \/ ff_msgs' = Append(ff_msgs, <<"fetch_script", ff_tmp.chunks + 1, FALSE>>)
     \/ UNCHANGED ff_msgs
  /\ UNCHANGED <<ff_pc, ff_dest, ff_dest0, ff_result, ff_failed_at>>
  /\ UNCHANGED FileOthers

\* lines 507-510 on the short chunk that ends the response: written, and the
\* loop breaks; the with blocks close the file
FileLastChunk ==
  /\ ff_pc = "loop"
  /\ ff_stream = 0
  /\ ff_pc' = "replace"
  /\ ff_tmp' = Download(ff_tmp.chunks, TRUE)
  /\ UNCHANGED <<ff_dest, ff_dest0, ff_stream, ff_msgs, ff_result, ff_failed_at>>
  /\ UNCHANGED FileOthers

\* line 507 or 508: request.read or f.write raises while the transfer is in
\* flight
FileTransferRaises ==
  /\ ff_pc = "loop"
  /\ \/ FileRaise("read", ff_tmp)
     \/ FileRaise("write", ff_tmp)
  /\ UNCHANGED <<ff_dest, ff_dest0, ff_stream, ff_msgs>>
  /\ UNCHANGED FileOthers

\* lines 515-517: the destination is unlinked and the temporary file renamed
\* to it; os.rename may raise after the unlink
FileReplace ==
  /\ ff_pc = "replace"
  /\ \/ /\ ff_pc' = "utime"
        /\ ff_dest' = ff_tmp
        /\ ff_tmp' = None
        /\ UNCHANGED <<ff_result, ff_failed_at>>
     \/ /\ FileRaise("rename", ff_tmp)
        /\ ff_dest' = None
  /\ UNCHANGED <<ff_dest0, ff_stream, ff_msgs>>
  /\ UNCHANGED FileOthers

\* lines 519-522: the Last-Modified header is parsed and set on the file;
\* strptime raises when the response has no such header or another format
FileUtime ==
  /\ ff_pc = "utime"
  /\ \/ /\ ff_pc' = "done"
        /\ ff_result' = <<Bool(TRUE), "OK">>
        /\ UNCHANGED <<ff_tmp, ff_failed_at>>
     \/ FileRaise("strptime", ff_tmp)
  /\ UNCHANGED <<ff_dest, ff_dest0, ff_stream, ff_msgs>>
  /\ UNCHANGED FileOthers

FileNext ==
  \/ FileUnlinkTmp
  \/ FileUrlopen
  \/ FileOpen
  \/ FileFullChunk
  \/ FileLastChunk
  \/ FileTransferRaises
  \/ FileReplace
  \/ FileUtime

SpecFile == FileInit /\ [][FileNext]_vars

\* the call has failed while the transfer was in flight
FailedInFlight ==
  /\ ff_pc = "done"
  /\ ff_failed_at \in {"urlopen", "open", "read", "write"}

\* C6: a download that fails while the transfer is in flight returns a
\* failure result, leaves no temporary file, and leaves no downloaded
\* content at the destination: a destination absent before the call is
\* still absent.
C6_NoPartialDownload ==
  FailedInFlight =>
    /\ ff_result[1] = Bool(FALSE)
    /\ ff_tmp = None
    /\ ff_dest # None => ff_dest.content = "old"
    /\ ff_dest0 = None => ff_dest = None

\* a write has failed after a chunk was written and reported, with no file
\* at the destination before the call
C6_Witness ==
  /\ FailedInFlight
  /\ ff_failed_at = "write"
  /\ ff_msgs # <<>>
  /\ ff_dest0 = None

\* C17: whenever fetch_file returns a failure result, the file at the
\* destination path is the file that was there before the call, neither
\* removed nor replaced by the download, whatever step failed.
C17_FailureLeavesDestination ==
  (ff_pc = "done" /\ ff_result[1] = Bool(FALSE)) => ff_dest = ff_dest0

(***************************************************************************)
(* SpecWorker: the BTIWindow dispatcher and its worker processes           *)
(***************************************************************************)
MaxProcs == 3
MaxProgress == 1

\* what the user may have typed into the entry when a fetch starts
WorkerRefs ==
  { <<"0", "9", "3", "4", "5", "6", "7", "8">>,
    <<"/">> }

\* the environments a fetch worker may run in
WorkerEnvs ==
  { [db_present |-> FALSE, publications |-> {}, patents |-> {}, files |-> {}] }

\* 'command in self.workers'
Keys == {w.key : w \in workers}

\* multiprocessing.Process(target=WorkerProcess.run, args=(command, ...))
NewProc(command, command_arguments) ==
  [command |-> command,
   pc |-> IF command = "status" THEN "bdss_status"
          ELSE IF command = "fetch_script" THEN "announce"
          ELSE "fetch",
   args |-> command_arguments,
   result |-> Pending,
   progress |-> 0,
   sent |-> <<>>]

\* start_worker without the test of line 752
start_worker_unguarded(command, command_arguments) ==
  /\ procs' = Append(procs, NewProc(command, command_arguments))
  /\ workers' = {w \in workers : w.key # command}
                  \cup {[key |-> command, proc |-> Len(procs) + 1]}

\* BTIWindow.start_worker, lines 751-757
start_worker(command, command_arguments) ==
  IF command \in Keys
    THEN UNCHANGED <<workers, procs>>
    ELSE /\ procs' = Append(procs, NewProc(command, command_arguments))
         /\ workers' = workers \cup {[key |-> command, proc |-> Len(procs) + 1]}

\* BTIWindow.__init__, lines 619-622: the state after construction
WorkerInit ==
  /\ output_queue = <<>>
  /\ procs = <<NewProc("status", None)>>
  /\ workers = {[key |-> "status", proc |-> 1]}
  /\ button_fetch = "NORMAL"
  /\ button_script_fetch = "DISABLED"
  /\ drained = {}
  /\ NormIdle /\ FormatIdle /\ FetchIdle /\ RangeIdle /\ FileIdle

WorkerOthers == <<norm_vars, format_vars, fetch_vars, range_vars, file_vars>>

\* start_fetch_document, lines 729-735: the Fetch button or the Return key
StartFetchDocument ==
  /\ Len(procs) < MaxProcs
  /\ IF "fetch" \in Keys
       THEN UNCHANGED <<workers, procs, button_fetch>>
       ELSE /\ button_fetch' = "DISABLED"
            /\ \E ref \in WorkerRefs, open_document \in BOOLEAN :
                 start_worker("fetch", [ref |-> ref, open_document |-> open_document])
  /\ UNCHANGED <<output_queue, button_script_fetch, drained>>
  /\ UNCHANGED WorkerOthers

\* start_fetch_script, lines 737-740: the script Fetch button, when enabled
StartFetchScript ==
  /\ Len(procs) < MaxProcs
  /\ button_script_fetch = "NORMAL"
  /\ button_script_fetch' = "DISABLED"
  /\ start_worker("fetch_script", None)
  /\ UNCHANGED <<output_queue, button_fetch, drained>>
  /\ UNCHANGED WorkerOthers

\* output_queue.put((command, text, done)) by process p, which moves to pc
Put(p, command, text, done, pc) ==
  /\ output_queue' = Append(output_queue,
                            [command |-> command, text |-> text, done |-> done,
                             from |-> p])
  /\ procs' = [procs EXCEPT ![p].pc = pc, ![p].sent = Append(@, done)]

\* WorkerProcess.run with command 'status', lines 587-597.  Line 596 adds
\* '.' to the tuple check_database_status returns: TypeError, and the
\* process ends there.
StatusStep(p) ==
  /\ procs[p].command = "status"
  /\ \/ /\ procs[p].pc = "bdss_status"
        /\ Put(p, "bdss_status", "Online", FALSE, "script_status")
     \/ /\ procs[p].pc = "script_status"
        /\ \E text \in {"OK", "New Version"} :
             Put(p, "script_status", text, FALSE, "db_status")
     \/ /\ procs[p].pc = "db_status"
        /\ Put(p, "db_status", "Using BDSS TAR Index API", TRUE, "status_db")
     \/ /\ procs[p].pc = "status_db"
        /\ procs' = [procs EXCEPT ![p].pc = "crashed"]
        /\ UNCHANGED output_queue
  /\ UNCHANGED <<workers, button_fetch, button_script_fetch, drained>>
  /\ UNCHANGED WorkerOthers

\* WorkerProcess.run with command 'fetch_script', lines 598-601; fetch_file
\* puts its progress messages in between and returns 'OK' or an error
FetchScriptStep(p) ==
  /\ procs[p].command = "fetch_script"
  /\ \/ /\ procs[p].pc = "announce"
        /\ Put(p, "fetch_script", "Retrieving script", FALSE, "fetch_file")
     \/ /\ procs[p].pc = "fetch_file"
        /\ procs[p].progress < MaxProgress
        /\ output_queue' = Append(output_queue,
                                  [command |-> "fetch_script", text |-> "Retrieving",
                                   done |-> FALSE, from |-> p])
        /\ procs' = [procs EXCEPT ![p].progress = @ + 1,
                                  ![p].sent = Append(@, FALSE)]
     \/ /\ procs[p].pc = "fetch_file"
        /\ \E text \in {"OK", "Error"} :
             procs' = [procs EXCEPT ![p].pc = "report", ![p].result = text]
        /\ UNCHANGED output_queue
     \/ /\ procs[p].pc = "report"
        /\ output_queue' = Append(output_queue,
                                  [command |-> "fetch_script", text |-> procs[p].result,
                                   done |-> TRUE, from |-> p])
        /\ procs' = [procs EXCEPT ![p].pc = "finished", ![p].result = Pending,
                                  ![p].sent = Append(@, TRUE)]
  /\ UNCHANGED <<workers, button_fetch, button_script_fetch, drained>>
  /\ UNCHANGED WorkerOthers

\* WorkerProcess.run with command 'fetch', lines 602-607; an exception of
\* fetch ends the process
FetchStep(p) ==
  /\ procs[p].command = "fetch"
  /\ \/ /\ procs[p].pc = "fetch"
        /\ \E env \in WorkerEnvs :
             \E run \in fetch(env, procs[p].args.ref, None) :
               procs' = [procs EXCEPT
                           ![p].pc = IF run.out.raised THEN "crashed" ELSE "report",
                           ![p].result = IF run.out.raised THEN Pending
                                         ELSE [flag |-> run.out.ret[1],
                                               text |-> run.out.ret[2].msg]]
        /\ UNCHANGED output_queue
     \/ /\ procs[p].pc = "report"
        /\ output_queue' = Append(output_queue,
                                  [command |-> "fetch", text |-> procs[p].result.text,
                                   done |-> TRUE, from |-> p])
        /\ procs' = [procs EXCEPT
                       ![p].pc = IF procs[p].result.flag = Bool(TRUE)
                                    /\ procs[p].args.open_document
                                 THEN "open_document" ELSE "finished",
                       ![p].result = Pending,
                       ![p].sent = Append(@, TRUE)]
     \/ /\ procs[p].pc = "open_document"
        /\ procs' = [procs EXCEPT ![p].pc = "finished"]
        /\ UNCHANGED output_queue
  /\ UNCHANGED <<workers, button_fetch, button_script_fetch, drained>>
  /\ UNCHANGED WorkerOthers

\* BTIWindow.check_output_queue, lines 687-713: one poll
CheckOutputQueue ==
  /\ IF output_queue = <<>>
       THEN UNCHANGED <<output_queue, workers, button_fetch, button_script_fetch,
                        drained>>
       ELSE LET m == Head(output_queue)
            IN /\ output_queue' = Tail(output_queue)
               /\ button_script_fetch' =
                    IF m.command \in {"script_status", "fetch_script"}
                      THEN (IF m.text = "OK" THEN "DISABLED" ELSE "NORMAL")
                      ELSE button_script_fetch
               /\ button_fetch' = IF m.command = "fetch" THEN "NORMAL"
                                  ELSE button_fetch
               /\ workers' = IF m.done /\ m.command \in Keys
                               THEN {w \in workers : w.key # m.command}
                               ELSE workers
               /\ drained' = IF m.done /\ m.command = procs[m.from].command
                               THEN drained \cup {m.from}
                               ELSE drained
  /\ UNCHANGED procs
  /\ UNCHANGED WorkerOthers

WorkerNext ==
  \/ StartFetchDocument
  \/ StartFetchScript
  \/ \E p \in 1..Len(procs) : StatusStep(p)
  \/ \E p \in 1..Len(procs) : FetchScriptStep(p)
  \/ \E p \in 1..Len(procs) : FetchStep(p)
  \/ CheckOutputQueue

SpecWorker == WorkerInit /\ [][WorkerNext]_vars

(***************************************************************************)
(* Claims about the dispatcher, under SpecWorker                           *)
(***************************************************************************)
CommandKeys == {"status", "fetch_script", "fetch"}

\* the workers started under a key whose terminal message (done=True with
\* that key) has not been drained
Undrained(key) ==
  {p \in 1..Len(procs) : procs[p].command = key /\ p \notin drained}

\* a step that spawns a process spawns it for a key absent from workers
SpawnOnlyIfAbsent ==
  Len(procs') > Len(procs) =>
    /\ Len(procs') = Len(procs) + 1
    /\ procs'[Len(procs')].command \notin Keys

\* a key leaves workers only in a step that drains a done=True message
\* carrying that key
LeavesOnlyOnTerminal ==
  \A key \in Keys :
    key \notin {w.key : w \in workers'} =>
      /\ output_queue # <<>>
      /\ Head(output_queue).command = key
      /\ Head(output_queue).done
      /\ output_queue' = Tail(output_queue)

\* C2: for every command key at most one worker started under it has not yet
\* had its terminal message drained; a start for a key present in workers
\* spawns no process; a key leaves workers only when a done=True message
\* carrying that key is drained.
C2_OneWorkerPerKey ==
  /\ [](\A key \in CommandKeys : Cardinality(Undrained(key)) <= 1)
  /\ [][SpawnOnlyIfAbsent /\ LeavesOnlyOnTerminal]_vars

\* a second worker runs under a key after the terminal message of the first
\* was drained, the first process still being in open_document
C2_Witness ==
  \E p, q \in 1..Len(procs) :
    /\ p < q
    /\ procs[p].command = "fetch" /\ procs[q].command = "fetch"
    /\ p \in drained /\ q \notin drained
    /\ procs[p].pc = "open_document"
    /\ "fetch" \in Keys

\* the done flags of the messages a process has put are False ... False, True
OneTerminalLast(sent) ==
  /\ Len(sent) >= 1
  /\ sent[Len(sent)]
  /\ \A i \in 1..(Len(sent) - 1) : ~sent[i]

\* C3: every run of WorkerProcess.run puts zero or more done=False messages
\* and then exactly one done=True message before the worker finishes, and no
\* message after it.
C3_OneTerminalMessage ==
  \A p \in 1..Len(procs) :
    /\ procs[p].pc \in {"finished", "crashed"} => OneTerminalLast(procs[p].sent)
    /\ \A i \in 1..(Len(procs[p].sent) - 1) : ~procs[p].sent[i]

(***************************************************************************)
(* SpecWorkerFair: SpecWorker with its scheduling.  A started process runs *)
(* on: each of its calls returns or times out (socket.setdefaulttimeout),  *)
(* so a step of WorkerProcess.run that can be taken is taken.              *)
(* check_output_queue reschedules itself every 100 ms (line 713), so a     *)
(* message waiting in the queue is drained.                                *)
(***************************************************************************)
\* a step of the process p, whatever its command
WorkerStep(p) ==
  /\ p \in 1..Len(procs)
  /\ (StatusStep(p) \/ FetchScriptStep(p) \/ FetchStep(p))

SpecWorkerFair ==
  /\ SpecWorker
  /\ WF_vars(CheckOutputQueue)
  /\ \A p \in 1..MaxProcs : WF_vars(WorkerStep(p))

\* the process started under a key of workers has ended
Ended(w) == procs[w.proc].pc \in {"finished", "crashed"}

\* a done=True message carrying the key waits in the queue
TerminalQueued(key) ==
  \E i \in 1..Len(output_queue) :
    output_queue[i].command = key /\ output_queue[i].done

\* C16: every command key entered into workers by start_worker is
\* eventually removed from workers, when every network call returns or times
\* out and check_output_queue keeps being scheduled.  A key is removed only
\* when a done=True message carrying it is drained, and while it is in
\* workers only its own process can put one; so the claim requires that no
\* key remains in workers once its process has ended with no such message
\* left in the queue.
C16_RunningReturnsToIdle ==
  \A w \in workers : Ended(w) => TerminalQueued(w.key)

====
